---- MODULE Spec2Model ----
(***************************************************************************)
(* A model of kinisi: the bootstrap resampling of (charge) displacements   *)
(* (diffusion.py), the nearest positive-definite repair (matrix.py), the   *)
(* Distribution the bootstrap grows (kinisi.distribution, known here from  *)
(* its tests and the specification), and the Diffusion relationship with   *)
(* the DiffAnalyzer facade (diffusion.py, analyze.py).                     *)
(*                                                                         *)
(* Each part has its own specification (SpecBoot, SpecPD, SpecDist,        *)
(* SpecDiff); the variables of the other parts are held at their idle      *)
(* values.                                                                 *)
(***************************************************************************)
EXTENDS Integers, Sequences, FiniteSets, TLC

VARIABLES
    \* ---- msd_bootstrap / mscd_bootstrap ----
    args,            \* the arguments of the call
    bpc,             \* position in the function: "idle","for","while","returned","raised"
    i,               \* the for-loop index (1-based)
    n_samples,       \* n_samples_msd / n_samples_mscd of the current interval
    obs,             \* the flattened observation array of the current interval
    distro,          \* the Distribution of the current interval
    output_delta_t,  \* np.array output_delta_t
    mean_out,        \* np.array mean_msd / mean_mscd
    err_out,         \* np.array err_msd / err_mscd
    warned,          \* intervals for which warnings.warn was called, in order
    batches,         \* rounds of the while loop run for the current interval
    fate,            \* per interval: "pending", "dropped", "resampling", "emitted", "raised"
    \* ---- find_nearest_positive_definite ----
    pdpc,            \* position: "idle","entry","projected","loop","returned"
    matrix,          \* the argument
    A3,              \* the matrix being corrected
    pdk,             \* k
    spacing,         \* np.spacing(np.linalg.norm(matrix))
    pdWarnings,      \* number of warnings.warn calls
    pdResult,        \* the returned object
    pdTol,           \* rounding of the Cholesky factorisation (0: exact)
    pdShifts,        \* the amounts added to the diagonal, round by round
    pdEigs,          \* mineig as computed in each round
    \* ---- Distribution ----
    dpc,             \* "idle", "none" (not constructed), "made", "failed" (ValueError)
    dReq,            \* the ci_points argument of the constructor
    dist,            \* the Distribution
    dAdded,          \* number of samples handed to add_samples so far
    dAdds,           \* number of add_samples calls so far
    \* ---- Diffusion and DiffAnalyzer ----
    relpc,           \* "idle", "none" (no Diffusion yet), "made"
    units,           \* abscissa and ordinate units of the relationship
    variables0,      \* variables[0], the slope: a point value or samples
    diffusion_coefficient,
    spc,             \* inside sample(): "idle" or "sampled" (after self.mcmc)
    calls,           \* method calls made on the relationship by its user
    apc,             \* position in DiffAnalyzer.__init__
    aMethod,         \* the sampling_method argument
    aError,          \* exception that ended the construction, or "none"
    log,             \* steps of DiffAnalyzer.__init__ in the order performed
    slope0,          \* the slope when Diffusion.__init__ ran
    sampled,         \* samples drawn by the sampler in the last sample() call
    rebuilds         \* completed sample() calls

bootVars == <<args, bpc, i, n_samples, obs, distro, output_delta_t, mean_out,
              err_out, warned, batches, fate>>

pdVars == <<pdpc, matrix, A3, pdk, spacing, pdWarnings, pdResult, pdTol, pdShifts,
            pdEigs>>

distVars == <<dpc, dReq, dist, dAdded, dAdds>>

diffVars == <<relpc, units, variables0, diffusion_coefficient, spc, calls,
              apc, aMethod, aError, log, slope0, sampled, rebuilds>>

vars == <<bootVars, pdVars, distVars, diffVars>>

notBoot == <<pdVars, distVars, diffVars>>
notPD == <<bootVars, distVars, diffVars>>
notDist == <<bootVars, pdVars, diffVars>>
notDiff == <<bootVars, pdVars, distVars>>

----------------------------------------------------------------------------
(* Bounds of the model *)

MaxIntervals == 3      \* len(displacements)
MaxObs == 3            \* observations in the first interval
MaxAtoms == 2          \* particles
MaxFreq == 2           \* samples_freq in 1..MaxFreq
MaxMultiplier == 2     \* bootstrap_multiplier in 1..MaxMultiplier
Dim == 3               \* spatial dimensions of a displacement

\* the values n_resamples and max_resamples are drawn from
NResamplesChoices == {50, 150}
MaxResamplesChoices == {120, 300}

\* range(100) in the while loop: the batch add_samples receives
BatchSize == 100

\* indices=None, and a list of particle indices
None == [given |-> FALSE, list |-> <<>>]
IndexList(l) == [given |-> TRUE, list |-> l]

----------------------------------------------------------------------------
(* Helpers on sequences *)

RECURSIVE SeqMin(_), SeqMax(_)
SeqMin(s) == IF Len(s) = 1 THEN s[1]
             ELSE LET m == SeqMin(Tail(s)) IN IF s[1] < m THEN s[1] ELSE m
SeqMax(s) == IF Len(s) = 1 THEN s[1]
             ELSE LET m == SeqMax(Tail(s)) IN IF s[1] > m THEN s[1] ELSE m

RECURSIVE SumOver(_, _)
\* the sum of f[x] over the sequence of indices s
SumOver(f, s) == IF s = <<>> THEN 0 ELSE f[s[1]] + SumOver(f, Tail(s))

Range1(n) == [k \in 1..n |-> k]

----------------------------------------------------------------------------
(* kinisi.distribution.Distribution, as the bootstrap uses it *)

\* the parametric test check_normality applies to a sample of this size
TestUsed(size) == IF size < 3 THEN "none"
                  ELSE IF size <= 5000 THEN "shapiro" ELSE "omnibus"

\* check_normality(): pass is "the p-value of the test used is > 0.05"
CheckNormality(size, pass) == IF size < 3 THEN FALSE ELSE pass

\* add_samples that leaves the cached flag as it was
AddSamplesMissingRecheck(d, k, pass) ==
    [d EXCEPT !.size = d.size + k, !.pass = pass, !.test = TestUsed(d.size + k)]

\* add_samples(values): append, then normal = check_normality()
AddSamples(d, k, pass) ==
    [d EXCEPT !.size = d.size + k, !.pass = pass, !.test = TestUsed(d.size + k),
              !.normal = CheckNormality(d.size + k, pass)]

DefaultCiPoints == <<25, 975>>     \* [2.5, 97.5], in tenths of a percent

\* a validation that only counts the values
ValidCiPointsLengthOnly(ci) == Len(ci) = 2

\* the check of ci_points at construction: two values, each in [0, 100],
\* lower < upper
ValidCiPoints(ci) ==
    /\ Len(ci) = 2
    /\ \A k \in 1..Len(ci) : 0 <= ci[k] /\ ci[k] <= 1000
    /\ ci[1] < ci[2]

EmptyDistribution(ci) ==
    [size |-> 0, normal |-> FALSE, pass |-> FALSE, test |-> "none", ci_points |-> ci]

NoDistro ==
    [size |-> 0, normal |-> FALSE, pass |-> FALSE, test |-> "none", ci_points |-> <<>>]

----------------------------------------------------------------------------
(* The displacement set: displacements[idx] has the axes [atom, observation,
   dimension].  The inputs of the model are particles of constant velocity:
   particle a is displaced by velocity[a] * delta_t[idx] along every axis in
   every observation of interval idx. *)

NIntervals == Len(args.n_obs)

Displacements(idx) ==
    [a \in 1..args.n_atoms |->
        [o \in 1..args.n_obs[idx] |->
            [d \in 1..Dim |-> args.velocity[a] * args.delta_t[idx]]]]

Square(x) == x * x

\* np.sum(displacements[i] ** 2, axis=2).flatten(): one value per (atom, observation)
DSquaredFlat(idx) ==
    LET T == Displacements(idx)
        O == args.n_obs[idx]
    IN  [k \in 1..(args.n_atoms * O) |->
            LET a == ((k - 1) \div O) + 1
                o == ((k - 1) % O) + 1
            IN  SumOver([d \in 1..Dim |-> Square(T[a][o][d])], Range1(Dim))]

\* np.sum(np.sum(displacements[i][indices, :, :], axis=0) ** 2, axis=1).flatten()
\* for a list of particle indices: one value per observation
SqChgDispOfList(idx, indices) ==
    LET T == Displacements(idx)
    IN  [o \in 1..args.n_obs[idx] |->
            SumOver([d \in 1..Dim |->
                        Square(SumOver([a \in 1..args.n_atoms |-> T[a][o][d]], indices))],
                    Range1(Dim))]

\* the same expression for indices = None: displacements[i][None, :, :] has the
\* axes [1, atom, observation, dimension], so axis 0 is the new axis and axis 1
\* of the square is the observation axis: one value per (atom, dimension)
SqChgDispOfNone(idx) ==
    LET T == Displacements(idx)
        O == args.n_obs[idx]
    IN  [k \in 1..(args.n_atoms * Dim) |->
            LET a == ((k - 1) \div Dim) + 1
                d == ((k - 1) % Dim) + 1
            IN  SumOver([o \in 1..O |-> Square(T[a][o][d])], Range1(O))]

SqChgDispFlat(idx) ==
    IF args.indices = None THEN SqChgDispOfNone(idx)
    ELSE SqChgDispOfList(idx, args.indices.list)

Observations(idx) ==
    IF args.mode = "msd" THEN DSquaredFlat(idx) ELSE SqChgDispFlat(idx)

\* dt_int = max_obs - n_obs + 1, with max_obs = displacements[0].shape[1]
MaxObsOf(n_obs) == n_obs[1]
DtInt(n_obs, idx) == MaxObsOf(n_obs) - n_obs[idx] + 1

\* the estimate scaled by bootstrap_multiplier before int() truncates it
NSamplesMsdScaledFirst(n_obs, idx, n_atoms, freq, mult) ==
    (MaxObsOf(n_obs) * n_atoms * mult) \div (DtInt(n_obs, idx) * freq)

\* int(max_obs / dt_int * n_atoms / samples_freq) * bootstrap_multiplier
NSamplesMsd(n_obs, idx, n_atoms, freq, mult) ==
    ((MaxObsOf(n_obs) * n_atoms) \div (DtInt(n_obs, idx) * freq)) * mult

\* the estimate rounded up instead of truncated
NSamplesMscdRoundedUp(n_obs, idx, freq, mult) ==
    ((MaxObsOf(n_obs) + DtInt(n_obs, idx) * freq - 1) \div (DtInt(n_obs, idx) * freq)) * mult

\* int(max_obs / dt_int / samples_freq) * bootstrap_multiplier
NSamplesMscd(n_obs, idx, freq, mult) ==
    (MaxObsOf(n_obs) \div (DtInt(n_obs, idx) * freq)) * mult

NSamples(idx) ==
    IF args.mode = "msd"
    THEN NSamplesMsd(args.n_obs, idx, args.n_atoms, args.samples_freq,
                     args.bootstrap_multiplier)
    ELSE NSamplesMscd(args.n_obs, idx, args.samples_freq, args.bootstrap_multiplier)

\* the size the while loop and the warning compare distro.size with
SizeCap == args.max_resamples - args.n_resamples

\* the condition of the while loop
KeepResampling(d) == (~d.normal) /\ d.size < SizeCap

\* the condition of the warning
WarnCondition(d) == d.size >= SizeCap

----------------------------------------------------------------------------
(* The arguments a call is made with *)

StrictlyIncreasing(s) == \A k \in 1..(Len(s) - 1) : s[k] < s[k + 1]

\* delta_t: the time of interval k, strictly increasing
DeltaT == [k \in 1..MaxIntervals |-> 10 * k]

\* the first entry holds the maximum number of observations
NObsChoices ==
    {n \in [1..MaxIntervals -> 1..MaxObs] : \A k \in 1..MaxIntervals : n[k] <= n[1]}

\* neighbouring particles move in opposite directions
VelocityChoices(A) == {[a \in 1..A |-> IF a % 2 = 1 THEN 1 ELSE -1]}

\* indices: omitted, or the first k particles
IndicesChoices(A) == {None} \cup {IndexList(Range1(k)) : k \in 1..A}

ArgsFor(m, A) ==
    {[mode |-> m, indices |-> ix, n_resamples |-> nr, max_resamples |-> mr,
      samples_freq |-> f, bootstrap_multiplier |-> bm, delta_t |-> dt,
      n_obs |-> no, n_atoms |-> A, velocity |-> v] :
        ix \in (IF m = "msd" THEN {None} ELSE IndicesChoices(A)),
        nr \in NResamplesChoices, mr \in MaxResamplesChoices,
        f \in 1..MaxFreq, bm \in 1..MaxMultiplier,
        dt \in {DeltaT}, no \in NObsChoices, v \in VelocityChoices(A)}

\* the two functions
Modes == {"msd", "mscd"}


NoArgs == [mode |-> "none"]

----------------------------------------------------------------------------
(* msd_bootstrap (diffusion.py 21-112) and mscd_bootstrap (115-211) *)

BootStartState ==
    /\ \E m \in Modes : \E A \in 1..MaxAtoms : args \in ArgsFor(m, A)
    /\ bpc = "for"
    /\ i = 1
    /\ n_samples = 0
    /\ obs = <<>>
    /\ distro = NoDistro
    /\ output_delta_t = <<>>
    /\ mean_out = <<>>
    /\ err_out = <<>>
    /\ warned = <<>>
    /\ batches = 0
    /\ fate = [k \in 1..MaxIntervals |-> "pending"]

\* for i in iterator: ... if n_samples <= 1: continue
BootDrop ==
    /\ bpc = "for"
    /\ i <= NIntervals
    /\ NSamples(i) <= 1
    /\ n_samples' = NSamples(i)
    /\ obs' = Observations(i)
    /\ fate' = [fate EXCEPT ![i] = "dropped"]
    /\ i' = i + 1
    /\ UNCHANGED <<args, bpc, distro, output_delta_t, mean_out, err_out, warned,
                   batches>>
    /\ UNCHANGED notBoot

\* ... otherwise the initial batch of n_resamples means becomes the Distribution
BootStart ==
    /\ bpc = "for"
    /\ i <= NIntervals
    /\ NSamples(i) > 1
    /\ n_samples' = NSamples(i)
    /\ obs' = Observations(i)
    /\ \E pass \in BOOLEAN :
          distro' = AddSamples(EmptyDistribution(DefaultCiPoints),
                               args.n_resamples, pass)
    /\ fate' = [fate EXCEPT ![i] = "resampling"]
    /\ batches' = 0
    /\ bpc' = "while"
    /\ UNCHANGED <<args, i, output_delta_t, mean_out, err_out, warned>>
    /\ UNCHANGED notBoot

\* one round of the while loop: add_samples of a batch of 100 means
BootAddBatch ==
    /\ bpc = "while"
    /\ KeepResampling(distro)
    /\ \E pass \in BOOLEAN : distro' = AddSamples(distro, BatchSize, pass)
    /\ batches' = batches + 1
    /\ UNCHANGED <<args, bpc, i, n_samples, obs, output_delta_t, mean_out,
                   err_out, warned, fate>>
    /\ UNCHANGED notBoot

\* what the rest of the loop body appends for a distribution of median med and
\* upper percentile perc; den is the divisor of mean and uncertainty
Emit(med, perc, den) ==
    /\ output_delta_t' = Append(output_delta_t, args.delta_t[i])
    /\ mean_out' = Append(mean_out, [num |-> med, den |-> den])
    /\ err_out' = Append(err_out, [num |-> perc - med, den |-> den])

\* the warning of lines 103-106 / 200-203
Warn ==
    warned' = IF WarnCondition(distro) THEN Append(warned, i) ELSE warned

Settle(st) == fate' = [fate EXCEPT ![i] = st]

\* the while loop is left: the warning, then the three appends
BootEmit ==
    /\ bpc = "while"
    /\ ~KeepResampling(distro)
    /\ ~(args.mode = "mscd" /\ args.indices = None)
    /\ Warn
    /\ \E med \in SeqMin(obs)..SeqMax(obs) : \E perc \in med..SeqMax(obs) :
          Emit(med, perc, IF args.mode = "msd" THEN 1 ELSE Len(args.indices.list))
    /\ Settle("emitted")
    /\ i' = i + 1
    /\ bpc' = "for"
    /\ UNCHANGED <<args, n_samples, obs, distro, batches>>
    /\ UNCHANGED notBoot

\* mscd_bootstrap without indices: line 204 appends delta_t[i], then
\* len(indices) of line 205 raises TypeError
BootEmitRaises ==
    /\ bpc = "while"
    /\ ~KeepResampling(distro)
    /\ args.mode = "mscd" /\ args.indices = None
    /\ Warn
    /\ output_delta_t' = Append(output_delta_t, args.delta_t[i])
    /\ Settle("raised")
    /\ bpc' = "raised"
    /\ UNCHANGED <<args, i, n_samples, obs, distro, mean_out, err_out, batches>>
    /\ UNCHANGED notBoot

\* return output_delta_t, mean, err
BootReturn ==
    /\ bpc = "for"
    /\ i > NIntervals
    /\ bpc' = "returned"
    /\ UNCHANGED <<args, i, n_samples, obs, distro, output_delta_t, mean_out,
                   err_out, warned, batches, fate>>
    /\ UNCHANGED notBoot

BootNext ==
    \/ BootDrop
    \/ BootStart
    \/ BootAddBatch
    \/ BootEmit
    \/ BootEmitRaises
    \/ BootReturn



----------------------------------------------------------------------------
(* Claims about msd_bootstrap and mscd_bootstrap *)

WarnedFor(k) == \E j \in 1..Len(warned) : warned[j] = k

\* the loop index is back at the head of the for loop after a record was appended
JustEmitted == bpc = "for" /\ i > 1 /\ fate[i - 1] = "emitted"

\* C1: max_resamples is a hard cap: the size of an interval's distribution
\* (the initial batch of n_resamples plus all batches of 100) never exceeds
\* max_resamples.
C1_SizeNeverExceedsMaxResamples == distro.size <= args.max_resamples

\* C2: the warning is emitted for a retained interval if and only if its
\* resampling stopped at the size cap with the distribution still not normal.
C2_WarningIffNotNormalAtCap ==
    JustEmitted =>
        (WarnedFor(i - 1) <=> ((~distro.normal) /\ distro.size >= SizeCap))

RECURSIVE RetainedDeltaT(_)
\* delta_t at the indices 1..n whose independent-sample count is > 1, in order
RetainedDeltaT(n) ==
    IF n = 0 THEN <<>>
    ELSE IF NSamples(n) > 1 THEN Append(RetainedDeltaT(n - 1), args.delta_t[n])
         ELSE RetainedDeltaT(n - 1)

\* the intervals the for loop has completed
Completed == IF bpc = "returned" THEN NIntervals ELSE i - 1

\* C3: the three output arrays always have equal length, hold one entry per
\* interval whose sample count is > 1 and none for the others, and
\* output_delta_t is delta_t at the retained indices, strictly increasing.
C3_OutputIsRetainedSubsequence ==
    /\ Len(output_delta_t) = Len(mean_out)
    /\ Len(mean_out) = Len(err_out)
    /\ output_delta_t = RetainedDeltaT(Completed)
    /\ StrictlyIncreasing(output_delta_t)
    /\ \A k \in 1..Completed :
          /\ NSamples(k) <= 1 => fate[k] = "dropped"
          /\ NSamples(k) > 1 => fate[k] = "emitted"

\* C4: without the indices argument the collective subset is all particles:
\* the observations are the squared magnitude of the displacement summed over
\* every particle, mean and uncertainty are divided by the particle count, and
\* the call does not raise.
C4_DefaultIndicesIsAllParticles ==
    (args.mode = "mscd" /\ args.indices = None) =>
        /\ bpc # "raised"
        /\ bpc = "while" => obs = SqChgDispOfList(i, Range1(args.n_atoms))
        /\ \A k \in 1..Len(mean_out) :
              mean_out[k].den = args.n_atoms /\ err_out[k].den = args.n_atoms

----------------------------------------------------------------------------
(* matrix.py: symmetric 2 x 2 matrices [[a, b], [b, d]] with integer entries.
   One unit is the resolution of the arithmetic; np.spacing grows with the
   magnitude of its argument as the spacing of floating-point numbers does. *)

MaxEntry == 4          \* entries of the argument and of cov_nearest's result
MaxTol == 2            \* pdTol in 0..MaxTol
MaxRounds == 8         \* rounds of the while loop the model follows
MantissaBits == 1      \* numbers below 2^(MantissaBits+1) units are spaced by 1

Mat(a, b, d) == [a |-> a, b |-> b, d |-> d]

RECURSIVE IsqrtFrom(_, _)
IsqrtFrom(n, r) == IF (r + 1) * (r + 1) > n THEN r ELSE IsqrtFrom(n, r + 1)
\* the integer square root
Isqrt(n) == IsqrtFrom(n, 0)

Discriminant(M) == (M.a - M.d) * (M.a - M.d) + 4 * M.b * M.b

\* the matrices of the model: those whose eigenvalues are integers
SymMatrices ==
    {M \in [a : -MaxEntry..MaxEntry, b : -MaxEntry..MaxEntry, d : -MaxEntry..MaxEntry] :
        Isqrt(Discriminant(M)) * Isqrt(Discriminant(M)) = Discriminant(M)}

\* the arguments of the model: covariance matrices, whose variances are positive
CovMatrices == {M \in SymMatrices : M.a >= 1 /\ M.d >= 1}

\* np.min(np.real(np.linalg.eigvals(M)))
MinEig(M) == (M.a + M.d - Isqrt(Discriminant(M))) \div 2

\* M + eye * c
AddToDiagonal(M, c) == [M EXCEPT !.a = M.a + c, !.d = M.d + c]

\* the square of np.linalg.norm(M), the Frobenius norm
NormSquared(M) == M.a * M.a + 2 * M.b * M.b + M.d * M.d

RECURSIVE Pow(_, _)
Pow(b, e) == IF e = 0 THEN 1 ELSE b * Pow(b, e - 1)

RECURSIVE SpacingFrom(_, _)
SpacingFrom(nsq, j) ==
    IF Pow(4, j + MantissaBits + 1) <= nsq THEN SpacingFrom(nsq, j + 1) ELSE Pow(2, j)
\* np.spacing(x) for x the square root of nsq: 1 below 2^(MantissaBits+1),
\* doubling with every doubling of x from there
SpacingOfNorm(nsq) == SpacingFrom(nsq, 0)

\* np.linalg.cholesky(M) succeeds: both pivots, M.a and M.d - M.b^2 / M.a, are
\* found positive; a pivot that is not above tol is lost to rounding
CholeskySucceeds(M, tol) ==
    /\ M.a > tol
    /\ M.a * M.d - M.b * M.b > tol * M.a

\* check_positive_definite(matrix)
CheckPositiveDefinite(M) == CholeskySucceeds(M, pdTol)

\* correlation_tools.cov_nearest(M, method='clipped') (statsmodels): a symmetric
\* matrix with the variances of M whose eigenvalues were clipped at a threshold,
\* so not negative beyond rounding
CovNearest(M, tol) ==
    {N \in SymMatrices : N.a = M.a /\ N.d = M.d /\ MinEig(N) >= -tol}

\* -mineig * k**2 + spacing, with the sign of mineig lost
LoopShiftSignLost(mineig, k, sp) == mineig * k * k + sp

\* -mineig * k**2 + spacing
LoopShift(mineig, k, sp) == (-mineig) * k * k + sp

PDStartState ==
    /\ pdpc = "entry"
    /\ matrix \in CovMatrices
    /\ pdTol \in 0..MaxTol
    /\ A3 = Mat(0, 0, 0)
    /\ pdk = 0
    /\ spacing = 0
    /\ pdWarnings = 0
    /\ pdResult = [obj |-> "none", val |-> Mat(0, 0, 0)]
    /\ pdShifts = <<>>
    /\ pdEigs = <<>>

\* if check_positive_definite(matrix): return matrix
PDReturnMatrix ==
    /\ pdpc = "entry"
    /\ CheckPositiveDefinite(matrix)
    /\ pdResult' = [obj |-> "matrix", val |-> matrix]
    /\ pdpc' = "returned"
    /\ UNCHANGED <<matrix, A3, pdk, spacing, pdWarnings, pdTol, pdShifts, pdEigs>>
    /\ UNCHANGED notPD

\* warnings.warn(...); A3 = correlation_tools.cov_nearest(matrix, method='clipped')
PDWarnAndProject ==
    /\ pdpc = "entry"
    /\ ~CheckPositiveDefinite(matrix)
    /\ pdWarnings' = pdWarnings + 1
    /\ A3' \in CovNearest(matrix, pdTol)
    /\ pdpc' = "projected"
    /\ UNCHANGED <<matrix, pdk, spacing, pdResult, pdTol, pdShifts, pdEigs>>
    /\ UNCHANGED notPD

\* the projection returned whatever check_positive_definite(A3) says
PDReturnProjectedUnchecked ==
    /\ pdpc = "projected"
    /\ pdResult' = [obj |-> "A3", val |-> A3]
    /\ pdpc' = "returned"
    /\ UNCHANGED <<matrix, A3, pdk, spacing, pdWarnings, pdTol, pdShifts, pdEigs>>
    /\ UNCHANGED notPD

\* if check_positive_definite(A3): return A3
PDReturnProjected ==
    /\ pdpc = "projected"
    /\ CheckPositiveDefinite(A3)
    /\ pdResult' = [obj |-> "A3", val |-> A3]
    /\ pdpc' = "returned"
    /\ UNCHANGED <<matrix, A3, pdk, spacing, pdWarnings, pdTol, pdShifts, pdEigs>>
    /\ UNCHANGED notPD

\* spacing = ...; eye = ...; k = 1
PDEnterLoop ==
    /\ pdpc = "projected"
    /\ ~CheckPositiveDefinite(A3)
    /\ spacing' = SpacingOfNorm(NormSquared(matrix))
    /\ pdk' = 1
    /\ pdpc' = "loop"
    /\ UNCHANGED <<matrix, A3, pdWarnings, pdResult, pdTol, pdShifts, pdEigs>>
    /\ UNCHANGED notPD

\* one round of: while not check_positive_definite(A3)
PDRound ==
    /\ pdpc = "loop"
    /\ ~CheckPositiveDefinite(A3)
    /\ pdk <= MaxRounds
    /\ LET shift == LoopShift(MinEig(A3), pdk, spacing)
       IN  /\ A3' = AddToDiagonal(A3, shift)
           /\ pdShifts' = Append(pdShifts, shift)
           /\ pdEigs' = Append(pdEigs, MinEig(A3))
    /\ pdk' = pdk + 1
    /\ UNCHANGED <<pdpc, matrix, spacing, pdWarnings, pdResult, pdTol>>
    /\ UNCHANGED notPD

\* the while loop is left: return A3
PDReturnCorrected ==
    /\ pdpc = "loop"
    /\ CheckPositiveDefinite(A3)
    /\ pdResult' = [obj |-> "A3", val |-> A3]
    /\ pdpc' = "returned"
    /\ UNCHANGED <<matrix, A3, pdk, spacing, pdWarnings, pdTol, pdShifts, pdEigs>>
    /\ UNCHANGED notPD

PDNext ==
    \/ PDReturnMatrix
    \/ PDWarnAndProject
    \/ PDReturnProjected
    \/ PDEnterLoop
    \/ PDRound
    \/ PDReturnCorrected

----------------------------------------------------------------------------
(* kinisi.distribution.Distribution on its own: construction and add_samples *)

MaxCiLen == 3          \* values in a ci_points argument
MaxAdds == 4           \* add_samples calls followed

\* percentile points on offer, in tenths of a percent
CiValues == {-5, 0, 50, 950, 1000, 1020}

CiChoices == UNION {[1..n -> CiValues] : n \in 1..MaxCiLen}

\* the numbers of values one add_samples call receives
AddChoices == {1, 2, 1000, 5000}

DistStartState ==
    /\ dpc = "none"
    /\ dReq = None
    /\ dist = NoDistro
    /\ dAdded = 0
    /\ dAdds = 0

\* Distribution(): ci_points defaults to [2.5, 97.5]
DistConstructDefault ==
    /\ dpc = "none"
    /\ dReq' = None
    /\ dist' = EmptyDistribution(DefaultCiPoints)
    /\ dpc' = "made"
    /\ UNCHANGED <<dAdded, dAdds>>
    /\ UNCHANGED notDist

\* Distribution(ci_points=ci) with ci accepted
DistConstruct ==
    /\ dpc = "none"
    /\ \E ci \in CiChoices :
          /\ ValidCiPoints(ci)
          /\ dReq' = IndexList(ci)
          /\ dist' = EmptyDistribution(ci)
    /\ dpc' = "made"
    /\ UNCHANGED <<dAdded, dAdds>>
    /\ UNCHANGED notDist

\* Distribution(ci_points=ci) with ci refused: ValueError
DistConstructFails ==
    /\ dpc = "none"
    /\ \E ci \in CiChoices :
          /\ ~ValidCiPoints(ci)
          /\ dReq' = IndexList(ci)
    /\ dpc' = "failed"
    /\ UNCHANGED <<dist, dAdded, dAdds>>
    /\ UNCHANGED notDist

\* distro.add_samples(values) with k values
DistAddSamples ==
    /\ dpc = "made"
    /\ dAdds < MaxAdds
    /\ \E k \in AddChoices : \E pass \in BOOLEAN :
          /\ dist' = AddSamples(dist, k, pass)
          /\ dAdded' = dAdded + k
    /\ dAdds' = dAdds + 1
    /\ UNCHANGED <<dpc, dReq>>
    /\ UNCHANGED notDist

DistNext ==
    \/ DistConstructDefault
    \/ DistConstruct
    \/ DistConstructFails
    \/ DistAddSamples

----------------------------------------------------------------------------
(* kinisi.diffusion.Diffusion and kinisi.analyze.DiffAnalyzer *)

MaxSlope == 2          \* slope values 1..MaxSlope
NPosterior == 2        \* samples a sampler run returns
MaxCalls == 3          \* method calls on one relationship

SlopeValues == 1..MaxSlope
PosteriorSamples == [1..NPosterior -> SlopeValues]

NoValue == [kind |-> "unset", vals |-> <<>>]
PointValue(v) == [kind |-> "point", vals |-> <<v>>]
Samples(sq) == [kind |-> "dist", vals |-> sq]

\* a quantity in cm^2/s as an exact fraction
Quantity(n, d) == [num |-> n, den |-> d]

\* powers of ten of a centimetre squared and of a second in one unit
OrdinateExp(u) == IF u = "angstrom2" THEN 16 ELSE 14       \* else nanometre^2
AbscissaExp(u) == IF u = "femtosecond" THEN 15 ELSE 12     \* else picosecond

DefaultUnits == [abscissa |-> "femtosecond", ordinate |-> "angstrom2"]
UnitChoices == [abscissa : {"femtosecond", "picosecond"},
                ordinate : {"angstrom2", "nanometre2"}]

\* (ordinate_unit / abscissa_unit).to(cm^2 / s), as numerator and denominator
ConvNum(u) ==
    LET e == AbscissaExp(u.abscissa) - OrdinateExp(u.ordinate)
    IN  IF e > 0 THEN Pow(10, e) ELSE 1

ConvDen(u) ==
    LET e == OrdinateExp(u.ordinate) - AbscissaExp(u.abscissa)
    IN  IF e > 0 THEN Pow(10, e) ELSE 1

\* variables[0] / 6 * (ordinate_unit / abscissa_unit), in cm^2/s
InitialCoefficient(v, u) == Quantity(v * ConvNum(u), 6 * ConvDen(u))

\* the samples converted without the division by 6
SampledCoefficientNoSixth(sq, u) ==
    [k \in 1..Len(sq) |-> Quantity(sq[k] * ConvNum(u), ConvDen(u))]

\* variables[0].samples * unit_conversion.magnitude / 6
SampledCoefficient(sq, u) ==
    [k \in 1..Len(sq) |-> Quantity(sq[k] * ConvNum(u), 6 * ConvDen(u))]

MethodChoices == {"mcmc", "nested_sampling", "emcee"}

DiffStartState ==
    /\ relpc = "none"
    /\ units = DefaultUnits
    /\ variables0 = NoValue
    /\ diffusion_coefficient = NoValue
    /\ spc = "idle"
    /\ calls = 0
    /\ apc = "none"
    /\ aMethod = "none"
    /\ aError = "none"
    /\ log = <<>>
    /\ slope0 = 0
    /\ sampled = <<>>
    /\ rebuilds = 0

\* Diffusion.__init__: the straight-line fit, then the point coefficient
DiffusionInit(v, u) ==
    /\ relpc' = "made"
    /\ units' = u
    /\ variables0' = PointValue(v)
    /\ diffusion_coefficient' = PointValue(InitialCoefficient(v, u))
    /\ slope0' = v

\* a Diffusion built directly by the user
DiffusionConstruct ==
    /\ relpc = "none"
    /\ apc = "none"
    /\ \E v \in SlopeValues : \E u \in UnitChoices : DiffusionInit(v, u)
    /\ UNCHANGED <<spc, calls, apc, aMethod, aError, log, sampled, rebuilds>>
    /\ UNCHANGED notDiff

\* the relationship is complete and no method of it is running
RelationshipUsable ==
    /\ relpc = "made"
    /\ apc \in {"none", "constructed"}
    /\ spc = "idle"
    /\ calls < MaxCalls

\* relationship.max_likelihood(...): variables become the optimum found
MaxLikelihood ==
    /\ RelationshipUsable
    /\ \E v \in SlopeValues : variables0' = PointValue(v)
    /\ calls' = calls + 1
    /\ UNCHANGED <<relpc, units, diffusion_coefficient, spc, apc, aMethod,
                   aError, log, slope0, sampled, rebuilds>>
    /\ UNCHANGED notDiff

\* relationship.mcmc(...): variables become posterior samples
Mcmc ==
    /\ RelationshipUsable
    /\ \E sq \in PosteriorSamples : variables0' = Samples(sq)
    /\ calls' = calls + 1
    /\ UNCHANGED <<relpc, units, diffusion_coefficient, spc, apc, aMethod,
                   aError, log, slope0, sampled, rebuilds>>
    /\ UNCHANGED notDiff

\* relationship.nested_sampling(...): variables become posterior samples
NestedSampling ==
    /\ RelationshipUsable
    /\ \E sq \in PosteriorSamples : variables0' = Samples(sq)
    /\ calls' = calls + 1
    /\ UNCHANGED <<relpc, units, diffusion_coefficient, spc, apc, aMethod,
                   aError, log, slope0, sampled, rebuilds>>
    /\ UNCHANGED notDiff

\* sample(), first statement: self.mcmc(**kwargs)
SampleMcmc ==
    /\ RelationshipUsable
    /\ \E sq \in PosteriorSamples :
          /\ variables0' = Samples(sq)
          /\ sampled' = sq
    /\ spc' = "sampled"
    /\ calls' = calls + 1
    /\ UNCHANGED <<relpc, units, diffusion_coefficient, apc, aMethod, aError,
                   log, slope0, rebuilds>>
    /\ UNCHANGED notDiff

\* sample(), the rest: diffusion_coefficient = Distribution(samples * conv / 6)
SampleRebuild ==
    /\ relpc = "made"
    /\ spc = "sampled"
    /\ diffusion_coefficient' = Samples(SampledCoefficient(variables0.vals, units))
    /\ spc' = "idle"
    /\ rebuilds' = rebuilds + 1
    /\ UNCHANGED <<relpc, units, variables0, calls, apc, aMethod, aError, log,
                   slope0, sampled>>
    /\ UNCHANGED notDiff

\* DiffAnalyzer(trajectory, params, sampling_method=m): entry
AnalyzerBegin ==
    /\ relpc = "none"
    /\ apc = "none"
    /\ \E m \in MethodChoices : aMethod' = m
    /\ apc' = "start"
    /\ UNCHANGED <<relpc, units, variables0, diffusion_coefficient, spc, calls,
                   aError, log, slope0, sampled, rebuilds>>
    /\ UNCHANGED notDiff

\* MSDAnalyzer.__init__: the trajectory is read and parsed
AnalyzerParse ==
    /\ apc = "start"
    /\ apc' = "parsed"
    /\ log' = Append(log, "parse")
    /\ UNCHANGED <<relpc, units, variables0, diffusion_coefficient, spc, calls,
                   aMethod, aError, slope0, sampled, rebuilds>>
    /\ UNCHANGED notDiff

\* MSDAnalyzer.__init__: diffusion.MSDBootstrap(dt, disp_3d, ...) in a
\* diffusion module that provides it
AnalyzerBootstrap ==
    /\ apc = "parsed"
    /\ apc' = "bootstrapped"
    /\ log' = Append(log, "bootstrap")
    /\ UNCHANGED <<relpc, units, variables0, diffusion_coefficient, spc, calls,
                   aMethod, aError, slope0, sampled, rebuilds>>
    /\ UNCHANGED notDiff

\* the same statement against diffusion.py as it stands, which defines no
\* MSDBootstrap: AttributeError
AnalyzerBootstrapMissing ==
    /\ apc = "parsed"
    /\ apc' = "raised"
    /\ aError' = "AttributeError"
    /\ UNCHANGED <<relpc, units, variables0, diffusion_coefficient, spc, calls,
                   aMethod, log, slope0, sampled, rebuilds>>
    /\ UNCHANGED notDiff

\* MSDAnalyzer.__init__: self.relationship = diffusion.Diffusion(...)
AnalyzerRelationship ==
    /\ apc = "bootstrapped"
    /\ \E v \in SlopeValues : DiffusionInit(v, DefaultUnits)
    /\ apc' = "related"
    /\ log' = Append(log, "relationship")
    /\ UNCHANGED <<spc, calls, aMethod, aError, sampled, rebuilds>>
    /\ UNCHANGED notDiff

\* DiffAnalyzer.__init__: self.relationship.max_likelihood('diff_evo')
AnalyzerMaxLikelihood ==
    /\ apc = "related"
    /\ \E v \in SlopeValues : variables0' = PointValue(v)
    /\ apc' = "maximised"
    /\ log' = Append(log, "max_likelihood")
    /\ UNCHANGED <<relpc, units, diffusion_coefficient, spc, calls, aMethod,
                   aError, slope0, sampled, rebuilds>>
    /\ UNCHANGED notDiff

\* DiffAnalyzer.__init__: self.relationship.mcmc(...)
AnalyzerMcmc ==
    /\ apc = "maximised"
    /\ aMethod = "mcmc"
    /\ \E sq \in PosteriorSamples : variables0' = Samples(sq)
    /\ apc' = "constructed"
    /\ log' = Append(log, "mcmc")
    /\ UNCHANGED <<relpc, units, diffusion_coefficient, spc, calls, aMethod,
                   aError, slope0, sampled, rebuilds>>
    /\ UNCHANGED notDiff

\* DiffAnalyzer.__init__: self.relationship.nested_sampling(...)
AnalyzerNestedSampling ==
    /\ apc = "maximised"
    /\ aMethod = "nested_sampling"
    /\ \E sq \in PosteriorSamples : variables0' = Samples(sq)
    /\ apc' = "constructed"
    /\ log' = Append(log, "nested_sampling")
    /\ UNCHANGED <<relpc, units, diffusion_coefficient, spc, calls, aMethod,
                   aError, slope0, sampled, rebuilds>>
    /\ UNCHANGED notDiff

\* DiffAnalyzer.__init__: the else branch, raise ValueError
AnalyzerRaise ==
    /\ apc = "maximised"
    /\ aMethod \notin {"mcmc", "nested_sampling"}
    /\ apc' = "raised"
    /\ aError' = "ValueError"
    /\ UNCHANGED <<relpc, units, variables0, diffusion_coefficient, spc, calls,
                   aMethod, log, slope0, sampled, rebuilds>>
    /\ UNCHANGED notDiff

\* DiffAnalyzer.D
D == diffusion_coefficient

DiffNext ==
    \/ DiffusionConstruct
    \/ MaxLikelihood
    \/ Mcmc
    \/ NestedSampling
    \/ SampleMcmc
    \/ SampleRebuild
    \/ AnalyzerBegin
    \/ AnalyzerParse
    \/ AnalyzerBootstrap
    \/ AnalyzerBootstrapMissing
    \/ AnalyzerRelationship
    \/ AnalyzerMaxLikelihood
    \/ AnalyzerMcmc
    \/ AnalyzerNestedSampling
    \/ AnalyzerRaise

----------------------------------------------------------------------------
(* The idle values of each part, and the specifications *)

BootIdle ==
    /\ args = NoArgs
    /\ bpc = "idle"
    /\ i = 0
    /\ n_samples = 0
    /\ obs = <<>>
    /\ distro = NoDistro
    /\ output_delta_t = <<>>
    /\ mean_out = <<>>
    /\ err_out = <<>>
    /\ warned = <<>>
    /\ batches = 0
    /\ fate = <<>>

PDIdle ==
    /\ pdpc = "idle"
    /\ matrix = Mat(0, 0, 0)
    /\ pdTol = 0
    /\ A3 = Mat(0, 0, 0)
    /\ pdk = 0
    /\ spacing = 0
    /\ pdWarnings = 0
    /\ pdResult = [obj |-> "none", val |-> Mat(0, 0, 0)]
    /\ pdShifts = <<>>
    /\ pdEigs = <<>>

DistIdle ==
    /\ dpc = "idle"
    /\ dReq = None
    /\ dist = NoDistro
    /\ dAdded = 0
    /\ dAdds = 0

DiffIdle ==
    /\ relpc = "idle"
    /\ units = DefaultUnits
    /\ variables0 = NoValue
    /\ diffusion_coefficient = NoValue
    /\ spc = "idle"
    /\ calls = 0
    /\ apc = "idle"
    /\ aMethod = "none"
    /\ aError = "none"
    /\ log = <<>>
    /\ slope0 = 0
    /\ sampled = <<>>
    /\ rebuilds = 0

BootInit == BootStartState /\ PDIdle /\ DistIdle /\ DiffIdle
PDInit == PDStartState /\ BootIdle /\ DistIdle /\ DiffIdle
DistInit == DistStartState /\ BootIdle /\ PDIdle /\ DiffIdle
DiffInit == DiffStartState /\ BootIdle /\ PDIdle /\ DistIdle

SpecBoot == BootInit /\ [][BootNext]_vars
SpecPD == PDInit /\ [][PDNext]_vars
SpecDist == DistInit /\ [][DistNext]_vars
SpecDiff == DiffInit /\ [][DiffNext]_vars

----------------------------------------------------------------------------
(* Claims about find_nearest_positive_definite *)

\* C5: a positive-definite argument is returned itself, with no warning; on
\* every other return the result passes check_positive_definite and the
\* warning was emitted exactly once.
C5_ReturnsArgumentOrRepaired ==
    pdpc = "returned" =>
        /\ CheckPositiveDefinite(matrix) =>
              pdResult = [obj |-> "matrix", val |-> matrix] /\ pdWarnings = 0
        /\ ~CheckPositiveDefinite(matrix) =>
              /\ pdResult.obj = "A3"
              /\ CheckPositiveDefinite(pdResult.val)
              /\ pdWarnings = 1

\* a matrix that needed the loop has been returned
C5_Witness ==
    /\ pdpc = "returned"
    /\ ~CheckPositiveDefinite(matrix)
    /\ Len(pdShifts) >= 1
    /\ pdResult.val # matrix

\* the minimum eigenvalue of the accumulated matrix after round j
EigAfter(j) == IF j < Len(pdEigs) THEN pdEigs[j + 1] ELSE MinEig(A3)

RoundsNeeded == IF pdTol < spacing THEN 1 ELSE IF pdTol < 17 * spacing THEN 3 ELSE 5

----------------------------------------------------------------------------
(* Claims about Distribution *)

\* C7: construction succeeds for every ci_points = [a, b] with
\* 0 <= a < b <= 100 and stores exactly those points (default [2.5, 97.5]);
\* for any other ci_points it fails with a ValueError and no distribution is
\* created.
C7_ConstructionValidatesCiPoints ==
    LET ascending ==
            /\ Len(dReq.list) = 2
            /\ 0 <= dReq.list[1]
            /\ dReq.list[1] < dReq.list[2]
            /\ dReq.list[2] <= 1000
    IN  /\ dpc = "made" =>
              IF dReq = None THEN dist.ci_points = <<25, 975>>
              ELSE ascending /\ dist.ci_points = dReq.list
        /\ dpc = "failed" => (~ascending) /\ dist = NoDistro /\ dAdded = 0

\* a distribution was constructed with points other than the default
C7_Witness ==
    /\ dpc = "made"
    /\ dReq # None
    /\ dist.ci_points = <<0, 1000>>

\* C8: after any sequence of add_samples calls, normal equals what
\* check_normality() returns on the current samples, size is the number of
\* samples added so far, and normal is False whenever size < 3.
C8_NormalIsCheckNormalityOfCurrentSamples ==
    dpc = "made" =>
        /\ dist.normal = CheckNormality(dist.size, dist.pass)
        /\ dist.size = dAdded
        /\ dist.size < 3 => ~dist.normal
        /\ (dist.size >= 3 /\ dist.pass) => dist.normal

\* after several calls the samples number more than 5000 and the test for
\* that many samples finds them not normal
C8_Witness ==
    /\ dpc = "made"
    /\ dAdds >= 2
    /\ dist.size > 5000
    /\ dist.test = "omnibus"
    /\ ~dist.pass
    /\ ~dist.normal

----------------------------------------------------------------------------
(* Claims about Diffusion and DiffAnalyzer *)

\* C9: diffusion_coefficient is the point value (slope at construction) / 6,
\* unit-converted, from the end of construction until a sample() call
\* completes; sample() first runs the sampler and only then replaces
\* diffusion_coefficient by the sampler's slope samples, each divided by 6 and
\* unit-converted; it is never a distribution before that.
C9_PointUntilSampleThenDistribution ==
    relpc = "made" =>
        LET cn == ConvNum(units)
            cd == ConvDen(units)
        IN  /\ rebuilds = 0 =>
                  diffusion_coefficient =
                      [kind |-> "point",
                       vals |-> <<[num |-> slope0 * cn, den |-> 6 * cd]>>]
            /\ rebuilds > 0 =>
                  /\ diffusion_coefficient.kind = "dist"
                  /\ Len(diffusion_coefficient.vals) = NPosterior
            /\ (rebuilds > 0 /\ spc = "idle") =>
                  \A k \in 1..NPosterior :
                      diffusion_coefficient.vals[k] =
                          [num |-> sampled[k] * cn, den |-> 6 * cd]
            /\ spc = "sampled" => variables0 = [kind |-> "dist", vals |-> sampled]

\* sample() has completed on a Diffusion in units other than the default
C9_Witness ==
    /\ relpc = "made"
    /\ apc = "none"
    /\ units = [abscissa |-> "picosecond", ordinate |-> "nanometre2"]
    /\ rebuilds = 1
    /\ spc = "idle"
    /\ diffusion_coefficient.kind = "dist"
    /\ diffusion_coefficient.vals[1] = [num |-> 2, den |-> 600]

\* C10: after a DiffAnalyzer has been constructed with 'mcmc' or
\* 'nested_sampling', D is a posterior distribution derived from the sampled
\* slope, and likelihood maximisation ran before the posterior sampling.
C10_DIsPosteriorAfterConstruction ==
    (apc = "constructed" /\ aMethod \in {"mcmc", "nested_sampling"}) =>
        /\ D.kind = "dist"
        /\ D.vals = SampledCoefficient(variables0.vals, units)
        /\ Len(log) = 5
        /\ log[4] = "max_likelihood"
        /\ log[5] = aMethod

\* C11: with a sampling_method other than 'mcmc' or 'nested_sampling' the
\* construction of a DiffAnalyzer fails with a ValueError raised immediately:
\* before trajectory parsing, bootstrap resampling, construction of the
\* relationship or likelihood maximisation has been performed.
C11_ValueErrorRaisedImmediately ==
    aError = "ValueError" =>
        /\ aMethod \notin {"mcmc", "nested_sampling"}
        /\ log = <<>>
        /\ relpc = "none"

----------------------------------------------------------------------------
(* Claims about the independent-sample count *)

\* numerator and denominator of the unscaled estimate of interval k:
\* max_obs / dt_int * particle factor / samples_freq
EstimateNum(k) == args.n_obs[1] * (IF args.mode = "msd" THEN args.n_atoms ELSE 1)
EstimateDen(k) == (args.n_obs[1] - args.n_obs[k] + 1) * args.samples_freq

\* the interval has been through the test n_samples <= 1
Decided(k) == fate[k] # "pending"

\* n_samples as last computed is that of interval k
CountIsOf(k) ==
    \/ bpc \in {"while", "raised"} /\ k = i
    \/ bpc = "for" /\ k = i - 1 /\ fate[k] = "dropped"

\* C12 as stated: the bootstrap multiplier scales the estimate, so an interval
\* whose unscaled estimate times bootstrap_multiplier exceeds 1 is retained.
C12_ScaledEstimateAboveOneIsRetained ==
    \A k \in 1..NIntervals :
        (Decided(k) /\ EstimateNum(k) * args.bootstrap_multiplier > EstimateDen(k))
            => fate[k] # "dropped"

\* the integer part of the unscaled estimate of interval k
TruncatedEstimate(k) ==
    CHOOSE q \in 0..EstimateNum(k) :
        q * EstimateDen(k) <= EstimateNum(k) /\ EstimateNum(k) < (q + 1) * EstimateDen(k)

\* C12 amended: the count is the integer part of the unscaled estimate, times
\* bootstrap_multiplier; msd uses the particle count as factor, mscd uses no
\* particle factor whatever n_atoms and indices are; an interval is dropped
\* exactly when that count is <= 1, so an interval whose unscaled estimate is
\* below 1 is dropped whatever the multiplier.
C12_CountIsTruncatedEstimateTimesMultiplier ==
    \A k \in 1..NIntervals :
        /\ CountIsOf(k) =>
              n_samples = TruncatedEstimate(k) * args.bootstrap_multiplier
        /\ Decided(k) =>
              (fate[k] = "dropped" <=>
                  TruncatedEstimate(k) * args.bootstrap_multiplier <= 1)
        /\ (Decided(k) /\ EstimateNum(k) < EstimateDen(k)) => fate[k] = "dropped"

\* msd_bootstrap has dropped an interval whose unscaled estimate times
\* bootstrap_multiplier is above 1, and retained an earlier one
C12_Witness ==
    /\ args.mode = "msd"
    /\ bpc = "for"
    /\ i > 2
    /\ fate[i - 1] = "dropped"
    /\ n_samples = 0
    /\ EstimateNum(i - 1) * args.bootstrap_multiplier > EstimateDen(i - 1)
    /\ fate[1] = "emitted"

----------------------------------------------------------------------------
(* Claims about the per-interval state machine *)

\* batches after which the size has reached max_resamples - n_resamples
BatchesToCap ==
    IF SizeCap <= args.n_resamples THEN 0
    ELSE (SizeCap - args.n_resamples + BatchSize - 1) \div BatchSize

\* C13: every interval goes PENDING -> DROPPED or PENDING -> RESAMPLING ->
\* CONVERGED | BUDGET_EXHAUSTED and reaches a terminal state; the loop adds
\* batches of exactly 100 only while the size is below max_resamples -
\* n_resamples, after finitely many batches it ends with the distribution
\* normal or the size >= max_resamples - n_resamples, and a record is emitted
\* exactly for the intervals that are not DROPPED.
C13_IntervalStateMachine ==
    /\ \A k \in 1..NIntervals :
          /\ fate[k] \in {"pending", "dropped", "resampling", "emitted"}
          /\ k < i => fate[k] \in {"dropped", "emitted"}
          /\ k > i => fate[k] = "pending"
    /\ bpc \in {"for", "while", "returned"}
    /\ bpc = "while" =>
          /\ fate[i] = "resampling"
          /\ distro.size = args.n_resamples + BatchSize * batches
          /\ batches <= BatchesToCap
          /\ batches > 0 => distro.size - BatchSize < SizeCap
    /\ JustEmitted => (distro.normal \/ distro.size >= SizeCap)
    /\ Len(output_delta_t) = Cardinality({k \in 1..NIntervals : fate[k] = "emitted"})
    /\ Len(mean_out) = Len(output_delta_t)
    /\ Len(err_out) = Len(output_delta_t)
    /\ bpc = "returned" => \A k \in 1..NIntervals : fate[k] \in {"dropped", "emitted"}

----------------------------------------------------------------------------
(* Claims relating the two functions on the same displacement set *)

\* the counts the two functions compute for interval k of the displacement
\* set of the call in progress
MsdCount(k) ==
    NSamplesMsd(args.n_obs, k, args.n_atoms, args.samples_freq,
                args.bootstrap_multiplier)
MscdCount(k) ==
    NSamplesMscd(args.n_obs, k, args.samples_freq, args.bootstrap_multiplier)

\* the observation counts do not increase over the intervals
NonIncreasingObs == \A k \in 1..(NIntervals - 1) : args.n_obs[k] >= args.n_obs[k + 1]

\* C14: every interval mscd_bootstrap retains is retained by msd_bootstrap
\* on the same displacement set, samples_freq and bootstrap_multiplier (the
\* delta_t mscd_bootstrap puts out are among those msd_bootstrap puts out);
\* and with non-increasing observation counts, once an interval is dropped
\* every later interval is dropped too.
C14_MscdRetainedIsMsdRetainedAndPrefix ==
    /\ \A k \in 1..NIntervals :
          /\ (args.mode = "mscd" /\ Decided(k) /\ fate[k] # "dropped") => MsdCount(k) > 1
          /\ (args.mode = "msd" /\ fate[k] = "dropped") => MscdCount(k) <= 1
    /\ args.mode = "mscd" =>
          \A j \in 1..Len(output_delta_t) :
              \E k \in 1..NIntervals :
                  args.delta_t[k] = output_delta_t[j] /\ MsdCount(k) > 1
    /\ NonIncreasingObs =>
          \A j \in 1..NIntervals : \A k \in 1..NIntervals :
              (j < k /\ fate[j] = "dropped" /\ Decided(k)) => fate[k] = "dropped"

\* mscd_bootstrap has returned for non-increasing observation counts, having
\* retained the first interval and dropped a later one that msd_bootstrap
\* retains
C14_Witness ==
    /\ args.mode = "mscd"
    /\ bpc = "returned"
    /\ NonIncreasingObs
    /\ fate[1] = "emitted"
    /\ \E k \in 2..NIntervals : fate[k] = "dropped" /\ MsdCount(k) > 1
    /\ Len(output_delta_t) < NIntervals

====
